---------------------------- MODULE Spec2Model ----------------------------
(***************************************************************************)
(* Huffman encoder of Enzocerq/embedded-huffman: the three variants        *)
(* huffman.c, huffman_vlad.c and huffman_t2_clock.c as one state machine.  *)
(* One behaviour is one process: main's HuffmanCodes(data, size) run once  *)
(* or twice on the same input, stepping through frequency counting, heap   *)
(* construction, the merge loop, code extraction, packing and byte         *)
(* conversion.  Statics of a variant survive from the first call to the    *)
(* second; locals are re-initialised as the C code initialises them.       *)
(*                                                                         *)
(* Conventions.  A C array is a sequence; C index i is element i + 1.      *)
(* A node pointer is the node's index in the arena nodes[], NULL is -1.    *)
(* A char buffer holding a C string is the sequence of its characters up   *)
(* to the terminating NUL (character codes, '0' = 48, '1' = 49).           *)
(***************************************************************************)
EXTENDS Integers, Sequences, FiniteSets, TLC

\* ------------------------------------------------------------- bounds
\* Longest input array handed to HuffmanCodes.
MaxLen == 4
\* Most bytes lying in memory after the input array before the first NUL.
MaxBeyond == 1
\* Most repetitions of a symbol in the inputs of five distinct symbols.
MaxRun == 2
\* Most nodes in the array buildMinHeap is first called on, and most nodes
\* allocated in all, when the priority queue is exercised on its own.
MaxQueue == 3
MaxArena == 4
\* Most symbols, and the largest frequency, in the tables the tree builder
\* is exercised on exhaustively.
MaxTable == 5
MaxWeight == 3

\* -------------------------------------------------- program constants
NULL == -1
EOF_CHAR == 0
CH_0 == 48
CH_1 == 49
CH_DOLLAR == 36
CHUNK == 1000
\* The unsigned 0 - 1 = 2^32 - 1, as the int with the same bits.
UINT_WRAP == -1
\* The largest int: size and every count in freq[] are ints.
INT_MAX == 2147483647
\* MAX_TREE_HT defined as 32 in every variant.
MAX_TREE_HT_32(v) == 32

\* MAX_TREE_HT of the variant v.
MAX_TREE_HT(v) == IF v = "vlad" THEN 8000 ELSE 100
\* The length of the array main fills in huffman_vlad.c.
SIZE == 8000
\* MAX_CHAR of the variant v.
MAX_CHAR(v) == IF v = "t2clock" THEN 128 ELSE 256

\* The byte values inputs are drawn from: NUL, 'a' .. 'd' and one byte
\* above 127.
Symbols == {0, 97, 98, 99, 100, 200}
\* 'a' .. 'z'.
Letters == 97..122
\* The bytes that may follow the input array in memory before the first
\* NUL: 'a', which has a code for some inputs and none for others.
BeyondBytes == {97}
\* Every index of freq[] and codes[][] the model can touch; '$' is the
\* symbol internal nodes carry.  Symbols are held in a char, which is
\* signed here: a byte above 127 is a negative index, outside both arrays.
Alphabet == {b \in Symbols : b < 128} \cup Letters \cup {CH_DOLLAR}
Variants == {"huffman", "vlad", "t2clock"}

\* ------------------------------------------------------------ helpers
\* C's integer division truncates towards zero.
CDiv(a, b) == IF a >= 0 THEN a \div b ELSE -((-a) \div b)

\* All sequences over S of length at most n.
SeqsUpTo(S, n) == UNION {[1..k -> S] : k \in 0..n}

Min(S) == CHOOSE x \in S : \A y \in S : x <= y

\* The value of a byte held in a (signed) char, as used in comparisons.
CharVal(b) == IF b >= 128 THEN b - 256 ELSE b

\* strlen / the string in a buffer: the characters before the first NUL.
RECURSIVE StrOf(_)
StrOf(buf) ==
    IF buf = <<>> \/ Head(buf) = 0 THEN <<>>
    ELSE <<Head(buf)>> \o StrOf(Tail(buf))

\* ------------------------------------------------------------ the heap
\* A node of the arena.
MinHeapNode(d, f) == [data |-> d, freq |-> f, left |-> NULL, right |-> NULL]

\* newNode: the arena with one more node, at index nodeIndex = Len(arena).
newNode(N, d, f) == Append(N, MinHeapNode(d, f))

\* The node the pointer p refers to.
Deref(N, p) == N[p + 1]

\* The heap's array at C index i.
At(h, i) == h.array[i + 1]

\* The comparison minHeapify applies to a child c against the current
\* smallest s: huffman.c breaks weight ties on the symbol, the other two
\* variants compare weights only.
HeapLessTie(N, c, s) ==
    \/ Deref(N, c).freq < Deref(N, s).freq
    \/ /\ Deref(N, c).freq = Deref(N, s).freq
       /\ CharVal(Deref(N, c).data) < CharVal(Deref(N, s).data)

\* The weight comparison turned round.
HeapLessFreqInverted(N, c, s) == Deref(N, c).freq > Deref(N, s).freq

HeapLessFreq(N, c, s) == Deref(N, c).freq < Deref(N, s).freq

HeapLess(v, N, c, s) ==
    IF v = "huffman" THEN HeapLessTie(N, c, s) ELSE HeapLessFreq(N, c, s)

swapMinHeapNode(h, i, j) ==
    [h EXCEPT !.array = [h.array EXCEPT ![i + 1] = h.array[j + 1],
                                        ![j + 1] = h.array[i + 1]]]

RECURSIVE minHeapify(_, _, _, _)
minHeapify(v, N, h, idx) ==
    LET left == 2 * idx + 1
        right == 2 * idx + 2
        s1 == IF left < h.size /\ HeapLess(v, N, At(h, left), At(h, idx))
              THEN left ELSE idx
        smallest == IF right < h.size /\ HeapLess(v, N, At(h, right), At(h, s1))
                    THEN right ELSE s1
    IN IF smallest # idx
       THEN minHeapify(v, N, swapMinHeapNode(h, smallest, idx), smallest)
       ELSE h

\* extractMin without the call of minHeapify that restores the heap.
extractMinNoHeapify(v, N, h) ==
    [node |-> At(h, 0),
     heap |-> [h EXCEPT !.array = [h.array EXCEPT ![1] = At(h, h.size - 1)],
                        !.size = h.size - 1]]

\* extractMin on a queue of size >= 1: the node taken and the heap left.
extractMin(v, N, h) ==
    LET moved == [h EXCEPT !.array = [h.array EXCEPT ![1] = At(h, h.size - 1)],
                           !.size = h.size - 1]
    IN [node |-> At(h, 0), heap |-> minHeapify(v, N, moved, 0)]

RECURSIVE insertSift(_, _, _, _)
insertSift(N, h, p, i) ==
    IF i # 0 /\ Deref(N, p).freq < Deref(N, At(h, CDiv(i - 1, 2))).freq
    THEN insertSift(N,
                    [h EXCEPT !.array = [h.array EXCEPT
                                           ![i + 1] = At(h, CDiv(i - 1, 2))]],
                    p, CDiv(i - 1, 2))
    ELSE [h EXCEPT !.array = [h.array EXCEPT ![i + 1] = p]]

\* insertMinHeap storing the node in the last position without moving it up.
insertMinHeapNoSift(N, h, p) ==
    [h EXCEPT !.size = h.size + 1, !.array = [h.array EXCEPT ![h.size + 1] = p]]

insertMinHeap(N, h, p) ==
    insertSift(N, [h EXCEPT !.size = h.size + 1], p, h.size)

\* The loop of buildMinHeap from index i down to 0.  (The test on the
\* size, which minHeapify never changes, has the heap after one call of
\* minHeapify computed before the next call starts.)
RECURSIVE buildSift(_, _, _, _)
buildSift(v, N, h, i) ==
    IF i >= 0
    THEN LET sifted1 == minHeapify(v, N, h, i)
         IN IF sifted1.size = h.size THEN buildSift(v, N, sifted1, i - 1)
            ELSE sifted1
    ELSE h

\* buildMinHeap starting one position above the last internal position.
buildMinHeapSkipLast(v, N, h) ==
    LET n == h.size - 1 IN buildSift(v, N, h, CDiv(n - 1, 2) - 1)

buildMinHeap(v, N, h) ==
    LET n == h.size - 1 IN buildSift(v, N, h, CDiv(n - 1, 2))

\* The indexes buildMinHeap passes to minHeapify, in the order of the calls.
RECURSIVE siftIndexes(_)
siftIndexes(i) == IF i >= 0 THEN <<i>> \o siftIndexes(i - 1) ELSE <<>>

buildMinHeapCalls(h) ==
    LET n == h.size - 1 IN siftIndexes(CDiv(n - 1, 2))


\* -------------------------------------------------- frequency counting
ZeroFreq == [c \in Alphabet |-> 0]

\* freq[(int)data[i]]++: an index outside freq[] leaves freq[] as it is
\* (the increment lands in other memory).
countOne(d, f, i) ==
    LET idx == CharVal(d[i + 1])
    IN IF idx \in DOMAIN f THEN [f EXCEPT ![idx] = @ + 1] ELSE f

\* calculateFrequency (and the counting loop of huffman_vlad.c):
\* freq[(int)data[i]]++ for i = from .. to - 1, evaluated as the iterations
\* of the first half of the range followed by those of the second half.
\* (The test on the domain, which always succeeds, has the table after the
\* first half computed before the second half starts.)
RECURSIVE countRange(_, _, _, _)
countRange(d, f, from, to) ==
    IF from >= to THEN f
    ELSE IF to = from + 1 THEN countOne(d, f, from)
    ELSE LET mid == (from + to) \div 2
             half == countRange(d, f, from, mid)
         IN IF DOMAIN half = DOMAIN f THEN countRange(d, half, mid, to)
            ELSE half

calculateFrequency(d, f, size) == countRange(d, f, 0, size)

\* calculateFrequencyInChunks counting the full chunks only.
RECURSIVE countFullChunksOnly(_, _, _, _, _)
countFullChunksOnly(d, f, n, chunk, start) ==
    IF start + chunk <= n
    THEN countFullChunksOnly(d, countRange(d, f, start, start + chunk), n,
                             chunk, start + chunk)
    ELSE f

\* calculateFrequencyInChunks: one window [start, end) after another.
\* (The test on the domain, which always succeeds, has the table after one
\* window computed before the next window starts.)
RECURSIVE calculateFrequencyInChunks(_, _, _, _, _)
calculateFrequencyInChunks(d, f, size, chunkSize, start) ==
    IF start < size
    THEN LET end == IF start + chunkSize < size THEN start + chunkSize ELSE size
             counted == countRange(d, f, start, end)
         IN IF DOMAIN counted = DOMAIN f
            THEN calculateFrequencyInChunks(d, counted, size, chunkSize,
                                            start + chunkSize)
            ELSE counted
    ELSE f

\* The table a call of HuffmanCodes counts: the sentinel variant overwrites
\* the count of EOF_CHAR with 1 after counting.
CountTable(v, d) ==
    IF v = "t2clock"
    THEN [calculateFrequencyInChunks(d, ZeroFreq, Len(d), CHUNK, 0)
            EXCEPT ![EOF_CHAR] = 1]
    ELSE calculateFrequency(d, ZeroFreq, Len(d))

\* The loop of HuffmanCodes that collects the symbols with freq[i] > 0 for
\* i ascending: the symbols still to scan are rest.
RECURSIVE collectUnique(_, _)
collectUnique(f, rest) ==
    IF rest = {} THEN <<>>
    ELSE LET i == Min(rest)
         IN (IF f[i] > 0 THEN <<i>> ELSE <<>>) \o collectUnique(f, rest \ {i})

uniqueDataOf(f) == collectUnique(f, Alphabet)
uniqueFreqOf(f) == [k \in 1..Len(uniqueDataOf(f)) |-> f[uniqueDataOf(f)[k]]]

\* ------------------------------------------------------ tree builder
\* The leaves createAndBuildMinHeap allocates: newNode(data[i], freq[i]).
\* (The test on the arena's length, which newNode always raises by one,
\* has the arena after one allocation computed before the next starts.)
RECURSIVE allocLeaves(_, _, _, _)
allocLeaves(N, ud, uf, i) ==
    IF i < Len(ud)
    THEN LET N1 == newNode(N, ud[i + 1], uf[i + 1])
         IN IF Len(N1) > Len(N) THEN allocLeaves(N1, ud, uf, i + 1) ELSE N1
    ELSE N

\* createAndBuildMinHeap: array[i] points at the i-th new leaf, then
\* buildMinHeap.  base is nodeIndex when the call starts.
createAndBuildMinHeap(v, N, base, size) ==
    buildMinHeap(v, N, [size |-> size,
                        array |-> [i \in 1..size |-> base + i - 1]])

\* The merge step with the two extracted nodes attached the other way round.
mergeStepSwapped(v, N, h) ==
    LET e1 == extractMin(v, N, h)
        e2 == extractMin(v, N, e1.heap)
        top == Len(N)
        N2 == Append(N, [data |-> CH_DOLLAR,
                         freq |-> Deref(N, e1.node).freq
                                    + Deref(N, e2.node).freq,
                         left |-> e2.node, right |-> e1.node])
    IN [nodes |-> N2, heap |-> insertMinHeap(N2, e2.heap, top)]

\* The merge step with the first extracted node attached on both sides.
mergeStepSharedChild(v, N, h) ==
    LET e1 == extractMin(v, N, h)
        e2 == extractMin(v, N, e1.heap)
        top == Len(N)
        N2 == Append(N, [data |-> CH_DOLLAR,
                         freq |-> Deref(N, e1.node).freq
                                    + Deref(N, e2.node).freq,
                         left |-> e1.node, right |-> e1.node])
    IN [nodes |-> N2, heap |-> insertMinHeap(N2, e2.heap, top)]

\* One iteration of the merge loop of buildHuffmanTree: the arena and the
\* heap after it.
mergeStep(v, N, h) ==
    LET e1 == extractMin(v, N, h)
        e2 == extractMin(v, N, e1.heap)
        left == e1.node
        right == e2.node
        top == Len(N)
        N2 == Append(N, [data |-> CH_DOLLAR,
                         freq |-> Deref(N, left).freq + Deref(N, right).freq,
                         left |-> left, right |-> right])
    IN [nodes |-> N2, heap |-> insertMinHeap(N2, e2.heap, top)]

\* The loop left as soon as two nodes remain.
loopContinuesAboveTwo(v, h) == h.size > 2

\* The loop condition of buildHuffmanTree: !isSizeOne(minHeap) in
\* huffman.c, minHeap.size > 1 in the other two.
loopContinues(v, h) == IF v = "huffman" THEN h.size # 1 ELSE h.size > 1

isLeaf(N, p) == Deref(N, p).left = NULL /\ Deref(N, p).right = NULL

\* ----------------------------------------------------- code extractors
NoCodes == [c \in Alphabet |-> <<>>]

\* The copy loop running to i <= top instead of i < top.
codeCharsOffByOne(arr, top) == [i \in 1..(top + 1) |-> arr[i] + CH_0]

\* The characters arr[0..top-1] + '0' a leaf's row of codes[][] receives.
codeChars(arr, top) == [i \in 1..top |-> arr[i] + CH_0]

\* The outer while loop of printCodes (huffman.c) and of the explicit-stack
\* generateCodes (huffman_t2_clock.c).  s holds the loop's variables: stack
\* (stackTop is its length), arr and top, current, visited (the set of
\* indexes whose visited[] entry is 1) and the codes table; rec lists, in
\* order, the nodes whose row of codes[][] the loop has written, and high
\* is the highest index at which stack[] and arr[] have been written.
RECURSIVE pushLeft(_, _)
pushLeft(N, s) ==
    IF s.current # NULL
    THEN pushLeft(N, [s EXCEPT !.stack = Append(s.stack, s.current),
                               !.arr = Append(SubSeq(s.arr, 1, s.top), 0),
                               !.top = s.top + 1,
                               !.high = IF Len(s.stack) > s.high
                                        THEN Len(s.stack) ELSE s.high,
                               !.current = Deref(N, s.current).left])
    ELSE s

\* One iteration of the outer while loop; the state is left as it is once
\* the loop's condition is false.
stackStep(N, s0) ==
    IF Len(s0.stack) > 0 \/ s0.current # NULL
    THEN LET s == pushLeft(N, s0)
             stackTop == Len(s.stack)
             cur == s.stack[stackTop]
         IN IF Deref(N, cur).right # NULL /\ (stackTop - 1) \notin s.visited
            THEN [s EXCEPT
                      !.visited = s.visited \cup {stackTop - 1},
                      !.current = Deref(N, cur).right,
                      !.arr = [s.arr EXCEPT ![s.top] = 1]]
            ELSE [s EXCEPT
                      !.stack = SubSeq(s.stack, 1, stackTop - 1),
                      !.top = s.top - 1,
                      !.codes = IF isLeaf(N, cur)
                                THEN [s.codes EXCEPT ![Deref(N, cur).data] =
                                         codeChars(s.arr, s.top - 1)]
                                ELSE s.codes,
                      !.rec = IF isLeaf(N, cur) THEN Append(s.rec, cur)
                              ELSE s.rec,
                      !.current = NULL]
    ELSE s0

\* n iterations of the loop, as those of the first half followed by those
\* of the second half.  (The test on top, which is never negative, has the
\* state after the first half computed before the second half starts.)
RECURSIVE stackSteps(_, _, _)
stackSteps(N, s, n) ==
    IF n <= 1 THEN stackStep(N, s)
    ELSE LET half == stackSteps(N, s, n \div 2)
         IN IF half.top >= 0 THEN stackSteps(N, half, n - (n \div 2))
            ELSE half

\* The loop run until its condition is false, Len(N) + 1 iterations at a
\* time.
RECURSIVE stackLoop(_, _)
stackLoop(N, s0) ==
    IF Len(s0.stack) > 0 \/ s0.current # NULL
    THEN stackLoop(N, stackSteps(N, s0, Len(N) + 1))
    ELSE s0

\* printCodes / generateCodes(root, codes) started with the given visited[]
\* and codes[][] contents: the loop's final variables.
stackExtract(N, root, vis, cds) ==
    stackLoop(N, [stack |-> <<>>, arr |-> <<>>, top |-> 0, current |-> root,
                  visited |-> vis, codes |-> cds, rec |-> <<>>, high |-> -1])

\* code[top] = ch in the recursive extractor's path buffer.
putCode(code, top, ch) ==
    IF top + 1 <= Len(code) THEN [code EXCEPT ![top + 1] = ch]
    ELSE Append(code, ch)

\* generateCodes(root, code, top, codes) of huffman_vlad.c: the path buffer
\* and the table after the call; rec lists, in order, the nodes whose row
\* of codes[][] has been written.  (The test on top, which never succeeds,
\* has the state a call starts in computed before the call descends.)
RECURSIVE generateCodes(_, _, _)
generateCodes(N, root, st) ==
    IF st.top < 0 THEN st
    ELSE
    LET n == Deref(N, root)
        a == IF n.left # NULL
             THEN LET r == generateCodes(N, n.left,
                               [st EXCEPT !.code = putCode(st.code, st.top, CH_0),
                                          !.top = st.top + 1])
                  IN [r EXCEPT !.top = st.top]
             ELSE st
        b == IF n.right # NULL
             THEN LET r == generateCodes(N, n.right,
                               [a EXCEPT !.code = putCode(a.code, a.top, CH_1),
                                         !.top = a.top + 1])
                  IN [r EXCEPT !.top = st.top]
             ELSE a
    IN IF n.left = NULL /\ n.right = NULL
       THEN LET c == putCode(b.code, b.top, 0)
            IN [b EXCEPT !.code = c,
                         !.codes = [b.codes EXCEPT ![n.data] = StrOf(c)],
                         !.rec = Append(b.rec, root)]
       ELSE b

recursiveExtract(N, root, cds) ==
    generateCodes(N, root, [code |-> <<>>, top |-> 0, codes |-> cds,
                            rec |-> <<>>])

\* ------------------------------------------------------------- packing
\* The codes of mem[from+1 .. to], concatenated in order: those of the
\* first half of the range followed by those of the second half.
RECURSIVE concatCodes(_, _, _, _)
concatCodes(cds, mem, from, to) ==
    IF from >= to THEN <<>>
    ELSE IF to = from + 1 THEN cds[mem[from + 1]]
    ELSE LET mid == (from + to) \div 2
         IN concatCodes(cds, mem, from, mid) \o concatCodes(cds, mem, mid, to)

\* The index of the first NUL at or after mem[i].
firstNul(mem, i) == Min({k \in i..(Len(mem) - 1) : mem[k + 1] = 0})

\* compressInput of huffman_vlad.c: strcat the code of input[i] until
\* input[i] is NUL; mem is the memory starting at input.
compressUntilNul(cds, mem, i, buf) ==
    buf \o concatCodes(cds, mem, i, firstNul(mem, i))

\* compressInput of huffman_t2_clock.c: the code characters of
\* input[0..size-1] written from compressed[0] on, no terminator written:
\* what the buffer held after them stays.
compressSized(cds, d, size, buf) ==
    LET bits == concatCodes(cds, d, 0, size)
    IN IF Len(bits) < Len(buf)
       THEN bits \o SubSeq(buf, Len(bits) + 1, Len(buf))
       ELSE bits

\* The bytes whose row of codes[][] the packing reads: input[0..size-1],
\* and in huffman_vlad.c the bytes from input[0] to the first NUL.
packedBytes(v, d, b) ==
    IF v = "vlad"
    THEN SubSeq(d \o b \o <<0>>, 1, firstNul(d \o b \o <<0>>, 0))
    ELSE d

\* The number of characters compressed[] has room for.
compressedCapacity(v) == MAX_TREE_HT(v) * MAX_CHAR(v)

\* The loop of HuffmanCodes (huffman_t2_clock.c) that writes each character
\* of the sentinel's code at compressed[strlen(compressed)].
appendEOF(cds, buf) == buf \o cds[EOF_CHAR]

\* The eight characters read with the first as the least significant bit.
RECURSIVE binaryValueLsbFirst(_, _, _)
binaryValueLsbFirst(binary, i, value) ==
    IF i < 8
    THEN binaryValueLsbFirst(binary, i + 1,
                             value + (binary[i + 1] - CH_0) * 2 ^ i)
    ELSE value

\* binary_to_char: eight characters to a value, returned as a char, which
\* keeps the low eight bits.
RECURSIVE binaryValue(_, _, _)
binaryValue(binary, i, value) ==
    IF i < 8 THEN binaryValue(binary, i + 1, value * 2 + (binary[i + 1] - CH_0))
    ELSE value

binary_to_char(binary) == binaryValue(binary, 0, 0) % 256

\* padded_length rounded up with + 8 instead of + 7.
paddedLengthPlus8(length) == CDiv(length + 8, 8) * 8

\* padded_length never below one byte.
paddedLengthAtLeast8(length) == IF length = 0 THEN 8 ELSE CDiv(length + 7, 8) * 8

\* convertToAscii: padded_length for a string of the given length.
paddedLength(length) == CDiv(length + 7, 8) * 8

\* convertToAscii: padded_data after memset(padded_data, '0', padding) and
\* strcpy(padded_data + padding, compressed).
paddedOf(buf) ==
    [i \in 1..(paddedLength(Len(buf)) - Len(buf)) |-> CH_0] \o buf

\* convertToAscii: the bytes output[0..index-1] it prints, one for each
\* i = 0, 8, 16, ... below padded_length.
convertToAscii(buf) ==
    LET pd == paddedOf(buf)
    IN [k \in 1..CDiv(paddedLength(Len(buf)), 8) |->
          binary_to_char(SubSeq(pd, 8 * (k - 1) + 1, 8 * k))]

\* ---------------------------------------------------------------- state
VARIABLES
    variant,      \* which of the three source files runs
    data,         \* the input array handed to HuffmanCodes; size is its length
    beyond,       \* the bytes after the array in memory, up to the first NUL
    call,         \* 1 during the first call of HuffmanCodes, 2 during the second
    pc,           \* the next step of HuffmanCodes
    freq,         \* freq[]
    uniqueData,   \* uniqueData[0..uniqueSize-1]
    uniqueFreq,   \* uniqueFreq[0..uniqueSize-1]
    nodes,        \* the arena nodes[0..nodeIndex-1]
    heap,         \* minHeap: size and array[]
    root,         \* the pointer buildHuffmanTree returned
    codes,        \* codes[][], one string per symbol
    visited,      \* the indexes i with visited[i] = 1
    recorded,     \* the nodes whose code this call's extraction wrote, in order
    compressed,   \* the string in compressed[] (huffman.c: the bits printed)
    padded_data,  \* the string in padded_data[]
    output,       \* the bytes convertToAscii printed
    underflow,    \* extractMin has run on a queue of size 0
    first,        \* what the first call produced, kept for comparison
    sifted,       \* the indexes the last buildMinHeap passed to minHeapify
    chunkSize,    \* the chunk size calculateFrequencyInChunks is called with
    fillIndex,    \* main of huffman_vlad.c: the index i of its fill loop
    stackHigh     \* the highest index of stack[] / arr[] the last extraction wrote

vars == <<variant, data, beyond, call, pc, freq, uniqueData, uniqueFreq, nodes,
          heap, root, codes, visited, recorded, compressed, padded_data,
          output, underflow, first, sifted, chunkSize, fillIndex,
          stackHigh>>

nodeIndex == Len(nodes)
size == Len(data)
uniqueSize == Len(uniqueData)

\* n copies of the byte b.
Rep(b, n) == [i \in 1..n |-> b]

\* Inputs of five distinct symbols, the first two of them repeated.
RunInputs ==
    {Rep(97, i) \o Rep(98, j) \o <<99, 100, 101>> :
        i \in 1..MaxRun, j \in 1..MaxRun}

\* The array main of huffman.c hands to HuffmanCodes.
Abracadabra == <<97, 98, 114, 97, 99, 97, 100, 97, 98, 114, 97>>

Init ==
    /\ variant \in Variants
    /\ data \in SeqsUpTo(Symbols, MaxLen) \cup RunInputs \cup {Abracadabra}
    /\ beyond \in (IF variant = "vlad" THEN SeqsUpTo(BeyondBytes, MaxBeyond)
                   ELSE {<<>>})
    /\ call = 1
    /\ pc = "count"
    /\ freq = ZeroFreq
    /\ uniqueData = <<>>
    /\ uniqueFreq = <<>>
    /\ nodes = <<>>
    /\ heap = [size |-> 0, array |-> <<>>]
    /\ root = NULL
    /\ codes = NoCodes
    /\ visited = {}
    /\ recorded = <<>>
    /\ compressed = <<>>
    /\ padded_data = <<>>
    /\ output = <<>>
    /\ underflow = FALSE
    /\ first = [codes |-> NoCodes, compressed |-> <<>>, output |-> <<>>]
    /\ sifted = <<>>
    /\ chunkSize = CHUNK
    /\ fillIndex = 0
    /\ stackHigh = -1

\* HuffmanCodes: the frequency count (and the sentinel's entry).  A byte
\* above 127 makes freq[(int)data[i]]++ a write in front of freq[], which
\* is undefined: the process faults, or goes on with the table that the
\* increments inside freq[] have left.
CountFrequencies ==
    /\ pc = "count"
    /\ freq' = CountTable(variant, data)
    /\ pc' \in (IF \E i \in 1..size : CharVal(data[i]) < 0
                THEN {"crashed", "unique"} ELSE {"unique"})
    /\ UNCHANGED <<variant, data, beyond, call, uniqueData, uniqueFreq,
                   nodes, heap, root, codes, visited, recorded, compressed,
                   padded_data, output, underflow, first, sifted, chunkSize,
                   fillIndex, stackHigh>>

\* HuffmanCodes: the loop filling uniqueData / uniqueFreq.
CollectUnique ==
    /\ pc = "unique"
    /\ uniqueData' = uniqueDataOf(freq)
    /\ uniqueFreq' = uniqueFreqOf(freq)
    /\ pc' = "heap"
    /\ UNCHANGED <<variant, data, beyond, call, freq, nodes, heap, root,
                   codes, visited, recorded, compressed, padded_data, output,
                   underflow, first, sifted, chunkSize,
                   fillIndex, stackHigh>>

\* buildHuffmanTree: createAndBuildMinHeap.  newNode does not compare
\* nodeIndex with the arena's length: a leaf stored at nodes[MAX_CHAR] or
\* after it is a write outside the arena, which is undefined: the process
\* faults, or goes on with indeterminate values.
CreateAndBuildMinHeap ==
    /\ pc = "heap"
    /\ nodes' = allocLeaves(nodes, uniqueData, uniqueFreq, 0)
    /\ IF Len(nodes') > MAX_CHAR(variant)
       THEN /\ heap' = heap
            /\ sifted' = sifted
            /\ pc' \in {"crashed", "undefined"}
       ELSE /\ heap' = createAndBuildMinHeap(variant, nodes', nodeIndex,
                                            uniqueSize)
            /\ sifted' = buildMinHeapCalls([size |-> uniqueSize])
            /\ pc' = "merge"
    /\ UNCHANGED <<variant, data, beyond, call, freq, uniqueData, uniqueFreq,
                   root, codes, visited, recorded, compressed, padded_data,
                   output, underflow, first, chunkSize,
                   fillIndex, stackHigh>>

\* buildHuffmanTree: one iteration of the merge loop.  An internal node
\* stored at nodes[MAX_CHAR] or after it is a write outside the arena, with
\* the same outcomes as above.
MergeStep ==
    /\ pc = "merge"
    /\ loopContinues(variant, heap)
    /\ heap.size >= 2
    /\ LET r == mergeStep(variant, nodes, heap)
       IN /\ nodes' = r.nodes
          /\ IF Len(r.nodes) > MAX_CHAR(variant)
             THEN /\ heap' = heap
                  /\ pc' \in {"crashed", "undefined"}
             ELSE /\ heap' = r.heap
                  /\ pc' = pc
    /\ UNCHANGED <<variant, data, beyond, call, freq, uniqueData, uniqueFreq,
                   root, codes, visited, recorded, compressed, padded_data,
                   output, underflow, first, sifted, chunkSize,
                   fillIndex, stackHigh>>

\* buildHuffmanTree: return extractMin(minHeap) once the loop has ended.
ReturnRoot ==
    /\ pc = "merge"
    /\ ~loopContinues(variant, heap)
    /\ heap.size >= 1
    /\ LET e == extractMin(variant, nodes, heap)
       IN /\ root' = e.node
          /\ heap' = e.heap
    /\ pc' = "extract"
    /\ UNCHANGED <<variant, data, beyond, call, freq, uniqueData, uniqueFreq,
                   nodes, codes, visited, recorded, compressed, padded_data,
                   output, underflow, first, sifted, chunkSize,
                   fillIndex, stackHigh>>

\* buildHuffmanTree on an empty table: extractMin runs on a queue of size 0
\* (inside the loop in huffman.c, whose condition is size != 1; at the
\* return in the other two).  It reads array[0] and array[size - 1] outside
\* the initialised part of the array and decrements the unsigned size,
\* which wraps to 2^32 - 1: UINT_WRAP stands for that value, written as
\* the int with the same 32 bits.  What follows is undefined: the process
\* faults, or goes on with indeterminate values.
ExtractMinEmpty ==
    /\ pc = "merge"
    /\ heap.size = 0
    /\ underflow' = TRUE
    /\ heap' = [heap EXCEPT !.size = UINT_WRAP]
    /\ pc' \in {"crashed", "undefined"}
    /\ UNCHANGED <<variant, data, beyond, call, freq, uniqueData, uniqueFreq,
                   nodes, root, codes, visited, recorded, compressed,
                   padded_data, output, first, sifted, chunkSize,
                   fillIndex, stackHigh>>

\* char codes[MAX_CHAR][MAX_TREE_HT] = {{0}}: the table cds with every row
\* an empty string.
zeroedCodes(cds) == [c \in DOMAIN cds |-> <<>>]

\* HuffmanCodes: code extraction.  codes[][] is a zeroed local in huffman.c
\* and huffman_vlad.c and a static in huffman_t2_clock.c; visited[] is a
\* zeroed local of printCodes in huffman.c and a static in
\* huffman_t2_clock.c.
ExtractCodes ==
    /\ pc = "extract"
    /\ LET r == CASE variant = "huffman" ->
                       stackExtract(nodes, root, {}, zeroedCodes(codes))
                  [] variant = "t2clock" ->
                       stackExtract(nodes, root, visited, codes)
                  [] variant = "vlad" ->
                       LET g == recursiveExtract(nodes, root,
                                                 zeroedCodes(codes))
                       IN [visited |-> visited, high |-> Len(g.code) - 1] @@ g
       IN /\ codes' = r.codes
          /\ visited' = r.visited
          /\ recorded' = r.rec
          /\ stackHigh' = r.high
    /\ pc' = "compress"
    /\ UNCHANGED <<variant, data, beyond, call, freq, uniqueData, uniqueFreq,
                   nodes, heap, root, compressed, padded_data, output,
                   underflow, first, sifted, chunkSize, fillIndex>>

\* HuffmanCodes: the bit string.  huffman.c prints codes[data[i]] for
\* i < size; huffman_vlad.c runs compressInput on a zeroed local buffer;
\* huffman_t2_clock.c runs compressInput on the static buffer.  Reading
\* codes[(int)input[i]] for a byte above 127, and writing past the end of
\* compressed[], are undefined: the process faults or goes on with
\* indeterminate values.
CompressInput ==
    /\ pc = "compress"
    /\ LET read == packedBytes(variant, data, beyond)
           bad == \E i \in 1..Len(read) : CharVal(read[i]) < 0
           bits ==
             CASE variant = "huffman" -> concatCodes(codes, data, 0, size)
               [] variant = "vlad" ->
                    compressUntilNul(codes, data \o beyond \o <<0>>, 0, <<>>)
               [] variant = "t2clock" ->
                    compressSized(codes, data, size, compressed)
           over == IF bad THEN TRUE
                   ELSE /\ variant # "huffman"
                        /\ Len(bits) >= compressedCapacity(variant)
       IN IF over
          THEN /\ compressed' = compressed
               /\ pc' \in {"crashed", "undefined"}
          ELSE /\ compressed' = bits
               /\ pc' = CASE variant = "huffman" -> "done"
                          [] variant = "vlad" -> "convert"
                          [] variant = "t2clock" -> "eof"
    /\ UNCHANGED <<variant, data, beyond, call, freq, uniqueData, uniqueFreq,
                   nodes, heap, root, codes, visited, recorded, padded_data,
                   output, underflow, first, sifted, chunkSize,
                   fillIndex, stackHigh>>

\* HuffmanCodes (huffman_t2_clock.c): the sentinel's code appended.  When
\* the characters do not leave room for a NUL in compressed[], strlen reads
\* and the loop writes past its end, which is undefined.
AppendEOF ==
    /\ pc = "eof"
    /\ compressed' = appendEOF(codes, compressed)
    /\ pc' \in (IF Len(compressed') >= compressedCapacity(variant)
                THEN {"crashed", "undefined"} ELSE {"convert"})
    /\ UNCHANGED <<variant, data, beyond, call, freq, uniqueData, uniqueFreq,
                   nodes, heap, root, codes, visited, recorded, padded_data,
                   output, underflow, first, sifted, chunkSize,
                   fillIndex, stackHigh>>

\* convertToAscii.
ConvertToAscii ==
    /\ pc = "convert"
    /\ padded_data' = paddedOf(compressed)
    /\ output' = convertToAscii(compressed)
    /\ pc' = "done"
    /\ UNCHANGED <<variant, data, beyond, call, freq, uniqueData, uniqueFreq,
                   nodes, heap, root, codes, visited, recorded, compressed,
                   underflow, first, sifted, chunkSize,
                   fillIndex, stackHigh>>

\* HuffmanCodes is called a second time on the same input.
CallAgain ==
    /\ pc = "done"
    /\ call = 1
    /\ call' = 2
    /\ first' = [codes |-> codes, compressed |-> compressed, output |-> output]
    /\ pc' = "count"
    /\ UNCHANGED <<variant, data, beyond, freq, uniqueData, uniqueFreq,
                   nodes, heap, root, codes, visited, recorded, compressed,
                   padded_data, output, underflow, sifted, chunkSize,
                   fillIndex, stackHigh>>

Next ==
    \/ CountFrequencies
    \/ CollectUnique
    \/ CreateAndBuildMinHeap
    \/ MergeStep
    \/ ReturnRoot
    \/ ExtractMinEmpty
    \/ ExtractCodes
    \/ CompressInput
    \/ AppendEOF
    \/ ConvertToAscii
    \/ CallAgain

Spec == Init /\ [][Next]_vars

\* ------------------------------------------ the priority queue on its own
\* buildMinHeap, insertMinHeap and extractMin applied in any order to a
\* queue whose array was filled with leaves of arbitrary weights and
\* symbols.  pc names the last operation; root is what extractMin returned.
QueueWeights == {1, 2}
QueueData == {97, 98}
QueueLeaves == {MinHeapNode(d, f) : d \in QueueData, f \in QueueWeights}

\* The variables the queue operations do not touch.
queueIdle == <<data, beyond, call, freq, uniqueData, uniqueFreq, codes,
               visited, recorded, compressed, padded_data, output, underflow,
               first, chunkSize,
                   fillIndex, stackHigh>>

QueueInit ==
    /\ variant \in Variants
    /\ nodes \in UNION {[1..n -> QueueLeaves] : n \in 1..MaxQueue}
    /\ heap = [size |-> Len(nodes),
               array |-> [i \in 1..MaxArena |->
                            IF i <= Len(nodes) THEN i - 1 ELSE NULL]]
    /\ pc = "q_raw"
    /\ root = NULL
    /\ sifted = <<>>
    /\ data = <<>>
    /\ beyond = <<>>
    /\ call = 1
    /\ freq = ZeroFreq
    /\ uniqueData = <<>>
    /\ uniqueFreq = <<>>
    /\ codes = NoCodes
    /\ visited = {}
    /\ recorded = <<>>
    /\ compressed = <<>>
    /\ padded_data = <<>>
    /\ output = <<>>
    /\ underflow = FALSE
    /\ first = [codes |-> NoCodes, compressed |-> <<>>, output |-> <<>>]
    /\ chunkSize = CHUNK
    /\ fillIndex = 0
    /\ stackHigh = -1

\* buildMinHeap(minHeap).
QueueBuild ==
    /\ pc \in {"q_raw", "q_built", "q_inserted", "q_extracted"}
    /\ heap' = buildMinHeap(variant, nodes, heap)
    /\ sifted' = buildMinHeapCalls(heap)
    /\ pc' = "q_built"
    /\ UNCHANGED <<variant, nodes, root>>
    /\ UNCHANGED queueIdle

\* insertMinHeap(minHeap, newNode(d, f)).
QueueInsert ==
    /\ pc \in {"q_built", "q_inserted", "q_extracted"}
    /\ Len(nodes) < MaxArena
    /\ \E d \in QueueData, f \in QueueWeights :
          /\ nodes' = newNode(nodes, d, f)
          /\ heap' = insertMinHeap(nodes', heap, nodeIndex)
    /\ pc' = "q_inserted"
    /\ UNCHANGED <<variant, root, sifted>>
    /\ UNCHANGED queueIdle

\* extractMin(minHeap) on a queue that is not empty.
QueueExtract ==
    /\ pc \in {"q_built", "q_inserted", "q_extracted"}
    /\ heap.size >= 1
    /\ LET e == extractMin(variant, nodes, heap)
       IN /\ root' = e.node
          /\ heap' = e.heap
    /\ pc' = "q_extracted"
    /\ UNCHANGED <<variant, nodes, sifted>>
    /\ UNCHANGED queueIdle

QueueNext == QueueBuild \/ QueueInsert \/ QueueExtract

QueueSpec == QueueInit /\ [][QueueNext]_vars

\* ------------------------------------------- chunked counting on its own
\* calculateFrequencyInChunks(data, freq, size, chunkSize) on a zeroed
\* freq[], for inputs whose bytes index freq[] and for chunk sizes from 1
\* to one more than the longest input.
countIdle == <<variant, data, beyond, call, uniqueData, uniqueFreq, nodes,
               heap, root, codes, visited, recorded, compressed, padded_data,
               output, underflow, first, sifted, chunkSize,
                   fillIndex, stackHigh>>

CountInit ==
    /\ variant = "t2clock"
    /\ data \in SeqsUpTo({b \in Symbols : b < 128}, MaxLen)
    /\ chunkSize \in 1..(MaxLen + 1)
    /\ fillIndex = 0
    /\ stackHigh = -1
    /\ pc = "c_start"
    /\ beyond = <<>>
    /\ call = 1
    /\ freq = ZeroFreq
    /\ uniqueData = <<>>
    /\ uniqueFreq = <<>>
    /\ nodes = <<>>
    /\ heap = [size |-> 0, array |-> <<>>]
    /\ root = NULL
    /\ codes = NoCodes
    /\ visited = {}
    /\ recorded = <<>>
    /\ compressed = <<>>
    /\ padded_data = <<>>
    /\ output = <<>>
    /\ underflow = FALSE
    /\ first = [codes |-> NoCodes, compressed |-> <<>>, output |-> <<>>]
    /\ sifted = <<>>

CountInChunks ==
    /\ pc = "c_start"
    /\ freq' = calculateFrequencyInChunks(data, freq, size, chunkSize, 0)
    /\ pc' = "c_done"
    /\ UNCHANGED countIdle

CountNext == CountInChunks

CountSpec == CountInit /\ [][CountNext]_vars

\* ------------------------------------------------------- the two mains
\* main of huffman.c calls HuffmanCodes once on the initialised array
\* "abracadabra"; main of huffman_vlad.c fills arr[8000] with 'a' .. 'z'
\* in turn, one element per iteration, and calls HuffmanCodes once on it.
MainInit ==
    /\ \/ variant = "huffman" /\ data = Abracadabra /\ pc = "count"
       \/ variant = "vlad" /\ data = <<>> /\ pc = "fill"
    /\ beyond = <<>>
    /\ call = 1
    /\ freq = ZeroFreq
    /\ uniqueData = <<>>
    /\ uniqueFreq = <<>>
    /\ nodes = <<>>
    /\ heap = [size |-> 0, array |-> <<>>]
    /\ root = NULL
    /\ codes = NoCodes
    /\ visited = {}
    /\ recorded = <<>>
    /\ compressed = <<>>
    /\ padded_data = <<>>
    /\ output = <<>>
    /\ underflow = FALSE
    /\ first = [codes |-> NoCodes, compressed |-> <<>>, output |-> <<>>]
    /\ sifted = <<>>
    /\ chunkSize = CHUNK
    /\ fillIndex = 0
    /\ stackHigh = -1

\* main (huffman_vlad.c): arr[i] = 'a' + (i % 26) for the next i; after i
\* iterations arr[0..i-1] holds arrFilled(i).
arrFilled(i) == [k \in 1..i |-> 97 + ((k - 1) % 26)]

FillArr ==
    /\ pc = "fill"
    /\ fillIndex < SIZE
    /\ fillIndex' = fillIndex + 1
    /\ UNCHANGED <<variant, data, beyond, call, pc, freq, uniqueData,
                   uniqueFreq, nodes, heap, root, codes, visited, recorded,
                   compressed, padded_data, output, underflow, first, sifted,
                   chunkSize, stackHigh>>

\* main (huffman_vlad.c): HuffmanCodes(arr, size) once the loop has ended;
\* what lies after the array on the stack is not known.
MainCall ==
    /\ pc = "fill"
    /\ fillIndex = SIZE
    /\ data' = arrFilled(fillIndex)
    /\ beyond' \in SeqsUpTo(BeyondBytes, MaxBeyond)
    /\ pc' = "count"
    /\ UNCHANGED <<variant, call, freq, uniqueData, uniqueFreq, nodes, heap,
                   root, codes, visited, recorded, compressed, padded_data,
                   output, underflow, first, sifted, chunkSize,
                   fillIndex, stackHigh>>

MainNext ==
    \/ FillArr
    \/ MainCall
    \/ CountFrequencies
    \/ CollectUnique
    \/ CreateAndBuildMinHeap
    \/ MergeStep
    \/ ReturnRoot
    \/ ExtractCodes
    \/ CompressInput
    \/ ConvertToAscii

MainSpec == MainInit /\ [][MainNext]_vars

\* ------------------------------------------- the tree builder on its own
\* buildHuffmanTree(uniqueData, uniqueFreq, uniqueSize) followed by the code
\* extraction, in the first call of a process, on a frequency table given
\* directly.  The tables are those the collecting loop of HuffmanCodes can
\* hand over: symbols ascending, frequencies positive with a sum that is an
\* int (the input's size), and in huffman_t2_clock.c the sentinel first
\* with frequency 1.
FullCodes == [c \in 0..127 |-> <<>>]

\* The first n symbols of a small table.
TableSymbols(v, n) ==
    IF v = "t2clock" THEN <<EOF_CHAR>> \o [k \in 1..(n - 1) |-> 96 + k]
    ELSE [k \in 1..n |-> 96 + k]

SmallTables(v) ==
    {[data |-> TableSymbols(v, Len(f)), freq |-> f] :
        f \in {g \in UNION {[1..n -> 1..MaxWeight] : n \in 1..MaxTable} :
                 v = "t2clock" => g[1] = 1}}

\* The counts f, whose sum is total, continued by the sum of the last two
\* for as long as the sum of all of them is at most limit.
RECURSIVE fibCounts(_, _, _)
fibCounts(f, total, limit) ==
    LET n == Len(f)
        next == f[n] + f[n - 1]
    IN IF next <= limit - total
       THEN fibCounts(Append(f, next), total + next, limit)
       ELSE f

\* The frequencies 1, 1, 2, 3, 5, ... continued for as long as their sum is
\* an int: the table of a given number of symbols that costs the fewest
\* input symbols to make every merge join the previous merge's node.
FibTable ==
    LET f == fibCounts(<<1, 1>>, 2, INT_MAX)
    IN [data |-> [k \in 1..Len(f) |-> k - 1], freq |-> f]

\* The smallest table of huffman_t2_clock.c whose 2n - 1 nodes outnumber
\* the arena's MAX_CHAR slots: the sentinel and n - 1 symbols seen once.
WideTable ==
    LET n == (MAX_CHAR("t2clock") \div 2) + 1
    IN [data |-> [k \in 1..n |-> k - 1], freq |-> [k \in 1..n |-> 1]]

\* The deep table is for the two variants whose extractor keeps its stack
\* in buffers of MAX_TREE_HT = 100 entries, the wide one for the variant
\* whose arena has 128 slots.
BuildTables(v) ==
    SmallTables(v)
        \cup (IF v # "vlad" THEN {FibTable} ELSE {})
        \cup (IF v = "t2clock" THEN {WideTable} ELSE {})

BuildInit ==
    /\ variant \in Variants
    /\ \E t \in BuildTables(variant) :
          /\ uniqueData = t.data
          /\ uniqueFreq = t.freq
    /\ pc = "heap"
    /\ codes = FullCodes
    /\ data = <<>>
    /\ beyond = <<>>
    /\ call = 1
    /\ freq = ZeroFreq
    /\ nodes = <<>>
    /\ heap = [size |-> 0, array |-> <<>>]
    /\ root = NULL
    /\ visited = {}
    /\ recorded = <<>>
    /\ compressed = <<>>
    /\ padded_data = <<>>
    /\ output = <<>>
    /\ underflow = FALSE
    /\ first = [codes |-> NoCodes, compressed |-> <<>>, output |-> <<>>]
    /\ sifted = <<>>
    /\ chunkSize = CHUNK
    /\ fillIndex = 0
    /\ stackHigh = -1

BuildNext ==
    \/ CreateAndBuildMinHeap
    \/ MergeStep
    \/ ReturnRoot
    \/ ExtractCodes

BuildSpec == BuildInit /\ [][BuildNext]_vars

\* ------------------------------------- inputs of up to SIZE symbols
\* HuffmanCodes of huffman_t2_clock.c, called once, on inputs of at most
\* SIZE symbols in which the k-th letter occurs 1, 2, 3, 5, 8, ... times:
\* with the sentinel's single occurrence these are the inputs that give the
\* longest codes for their length.
SizedCounts == fibCounts(<<1, 2>>, 3, SIZE)

\* The input of the first k letters with those counts.
RECURSIVE sizedInput(_)
sizedInput(k) ==
    IF k = 0 THEN <<>>
    ELSE sizedInput(k - 1) \o Rep(96 + k, SizedCounts[k])

SizedInit ==
    /\ variant = "t2clock"
    /\ data \in {sizedInput(k) : k \in 1..Len(SizedCounts)}
    /\ beyond = <<>>
    /\ call = 1
    /\ pc = "count"
    /\ freq = ZeroFreq
    /\ uniqueData = <<>>
    /\ uniqueFreq = <<>>
    /\ nodes = <<>>
    /\ heap = [size |-> 0, array |-> <<>>]
    /\ root = NULL
    /\ codes = NoCodes
    /\ visited = {}
    /\ recorded = <<>>
    /\ compressed = <<>>
    /\ padded_data = <<>>
    /\ output = <<>>
    /\ underflow = FALSE
    /\ first = [codes |-> NoCodes, compressed |-> <<>>, output |-> <<>>]
    /\ sifted = <<>>
    /\ chunkSize = CHUNK
    /\ fillIndex = 0
    /\ stackHigh = -1

SizedNext ==
    \/ CountFrequencies
    \/ CollectUnique
    \/ CreateAndBuildMinHeap
    \/ MergeStep
    \/ ReturnRoot
    \/ ExtractCodes
    \/ CompressInput
    \/ AppendEOF
    \/ ConvertToAscii

SizedSpec == SizedInit /\ [][SizedNext]_vars

\* =============================================================== claims
\* The steps of a call after code extraction has run.
AfterExtract == pc \in {"compress", "eof", "convert", "done"}

\* The symbols of the frequency table handed to buildHuffmanTree.
TableSyms == {uniqueData[k] : k \in 1..uniqueSize}

IsPrefix(a, b) == Len(a) <= Len(b) /\ SubSeq(b, 1, Len(a)) = a

\* How often the extraction wrote the code of symbol c.
TimesRecorded(c) ==
    Cardinality({i \in 1..Len(recorded) : Deref(nodes, recorded[i]).data = c})

\* ---- C1
\* C1: for an input with at least two distinct symbols, once the tree is
\* built and the codes are extracted, no symbol's code is a prefix of
\* another symbol's code (the empty code is a prefix of every code).
C1_PrefixFree ==
    (AfterExtract /\ uniqueSize >= 2) =>
        \A c \in TableSyms : \A d \in TableSyms :
            c # d => ~IsPrefix(codes[c], codes[d])

\* ---- C2
\* The least cost sum(weight * depth) over all full binary trees whose
\* leaves carry the weights ws: every such tree is the result of merging
\* two of the current roots, in some order, until one is left, and its cost
\* is the sum of the weights of the merged nodes.
RECURSIVE MinCost(_)
MinCost(ws) ==
    IF Len(ws) <= 1 THEN 0
    ELSE Min({ ws[i] + ws[j] +
               MinCost([k \in 1..(Len(ws) - 1) |->
                          IF k = Len(ws) - 1 THEN ws[i] + ws[j]
                          ELSE LET rest == SelectSeq([m \in 1..Len(ws) |-> m],
                                             LAMBDA m : m # i /\ m # j)
                               IN ws[rest[k]]])
               : <<i, j>> \in {q \in (1..Len(ws)) \X (1..Len(ws)) : q[1] < q[2]} })

\* sum over the table's symbols of frequency * code length, for a table cds.
RECURSIVE CostFrom(_, _)
CostFrom(cds, k) ==
    IF k > uniqueSize THEN 0
    ELSE uniqueFreq[k] * Len(cds[uniqueData[k]]) + CostFrom(cds, k + 1)

C3_EveryLeafOnce ==
    (AfterExtract /\ variant \in {"huffman", "t2clock"}) =>
        /\ \A c \in TableSyms : TimesRecorded(c) = 1
        /\ \A i \in 1..Len(recorded) : isLeaf(nodes, recorded[i])
        /\ codes[CH_DOLLAR] = <<>>
        /\ uniqueSize >= 2 => \A c \in TableSyms : codes[c] # <<>>

\* ---- C4
\* The node t lies in the subtree of p.
RECURSIVE Reaches(_, _, _)
Reaches(N, p, t) ==
    /\ p # NULL
    /\ \/ p = t
       \/ Reaches(N, Deref(N, p).left, t)
       \/ Reaches(N, Deref(N, p).right, t)

\* The path from p down to t: '0' for a step to the left child, '1' for a
\* step to the right child.
RECURSIVE PathTo(_, _, _)
PathTo(N, p, t) ==
    IF p = t THEN <<>>
    ELSE IF Reaches(N, Deref(N, p).left, t)
         THEN <<CH_0>> \o PathTo(N, Deref(N, p).left, t)
         ELSE <<CH_1>> \o PathTo(N, Deref(N, p).right, t)

\* C4: the code recorded for a leaf is the path from the root to it, '0'
\* for left and '1' for right, so it is as long as the leaf is deep.
C4_CodeIsPath ==
    AfterExtract =>
        \A i \in 1..Len(recorded) :
            /\ Reaches(nodes, root, recorded[i])
            /\ codes[Deref(nodes, recorded[i]).data]
                 = PathTo(nodes, root, recorded[i])

\* Three codes have been recorded, one of them with a '1' after a '0'.
C4_Witness ==
    /\ AfterExtract
    /\ Len(recorded) >= 3
    /\ \E i \in 1..Len(recorded) :
          LET c == codes[Deref(nodes, recorded[i]).data]
          IN Len(c) >= 2 /\ c[1] = CH_0 /\ c[2] = CH_1

\* ---- C5
\* C5: when the bit count L is no multiple of 8, the padded sequence is the
\* code stream followed by 8 - L mod 8 characters '0'.
C5_TrailingPadding ==
    (pc = "done" /\ variant \in {"vlad", "t2clock"}
       /\ Len(compressed) % 8 # 0) =>
        /\ Len(padded_data) = Len(compressed) + (8 - (Len(compressed) % 8))
        /\ SubSeq(padded_data, 1, Len(compressed)) = compressed
        /\ \A i \in (Len(compressed) + 1)..Len(padded_data) :
              padded_data[i] = CH_0

\* ---- C6
\* C6: the unpadded bit sequence is the codes of input[0..size-1] in order,
\* followed in the sentinel variant by the sentinel's code once (stated for
\* inputs whose bytes all index the code table).
InTable == \A i \in 1..size : data[i] \in DOMAIN codes

C6_ConcatInOrder ==
    /\ (variant = "huffman" /\ pc = "done" /\ InTable) =>
          compressed = concatCodes(codes, data, 0, size)
    /\ (variant = "vlad" /\ pc \in {"convert", "done"} /\ InTable) =>
          compressed = concatCodes(codes, data, 0, size)
    /\ (variant = "t2clock" /\ pc \in {"convert", "done"} /\ InTable) =>
          compressed = concatCodes(codes, data, 0, size) \o codes[EOF_CHAR]

\* ---- C7
\* ceil(n / 8), by its definition.
CeilDiv8(n) == CHOOSE k \in 0..n : 8 * k >= n /\ 8 * (k - 1) < n

BitAt(buf, i) == buf[i + 1] - CH_0

\* C8: output byte k is the value of bits 8k .. 8k+7 of the padded
\* sequence, the first bit the most significant, in 0..255, and there is
\* one byte for every group of 8.
C8_MsbFirst ==
    (pc = "done" /\ variant \in {"vlad", "t2clock"}) =>
        /\ Len(padded_data) = 8 * Len(output)
        /\ \A k \in 0..(Len(output) - 1) :
              /\ output[k + 1] \in 0..255
              /\ output[k + 1] =
                   BitAt(padded_data, 8 * k) * 128
                   + BitAt(padded_data, 8 * k + 1) * 64
                   + BitAt(padded_data, 8 * k + 2) * 32
                   + BitAt(padded_data, 8 * k + 3) * 16
                   + BitAt(padded_data, 8 * k + 4) * 8
                   + BitAt(padded_data, 8 * k + 5) * 4
                   + BitAt(padded_data, 8 * k + 6) * 2
                   + BitAt(padded_data, 8 * k + 7)

\* A byte whose bits are no palindrome has been produced.
C8_Witness ==
    /\ pc = "done"
    /\ variant \in {"vlad", "t2clock"}
    /\ \E k \in 1..Len(output) : output[k] \in {1, 2, 6, 11, 22, 36, 144}

\* ---- C9
\* C9: the second call of HuffmanCodes on the same input leaves the same
\* code table, the same bit string and the same output bytes as the first.
C9_SecondCallSame ==
    (call = 2 /\ pc = "done") =>
        /\ codes = first.codes
        /\ compressed = first.compressed
        /\ output = first.output

\* ---- C10
\* C10: buildHuffmanTree on an empty table ends in an error: extractMin
\* never runs on an empty queue and no tree is returned.
C10_EmptyTableFails ==
    /\ ~underflow
    /\ (uniqueSize = 0 /\ pc \notin {"count", "unique", "heap", "merge"}) =>
          (pc = "error" /\ root = NULL)

\* ---- C11
\* C11: with at least two symbols in the table, packing is never past an
\* input symbol whose row of codes[][] is empty unless the encode has ended
\* in an error: no packed symbol contributes zero bits to a finished bit
\* string.
C11_MissingCodeIsError ==
    (variant \in {"vlad", "t2clock"} /\ pc \in {"eof", "convert", "done"}
       /\ uniqueSize >= 2) =>
        \A i \in 1..Len(packedBytes(variant, data, beyond)) :
            codes[packedBytes(variant, data, beyond)[i]] # <<>>

\* ---- C12
\* The nodes in the queue h.
InQueue(h) == {h.array[i] : i \in 1..h.size}

\* C12: in every variant, after any sequence of buildMinHeap, insertMinHeap
\* and extractMin, extractMin on a non-empty queue returns a node of the
\* queue whose weight is at most the weight of every node left, and leaves
\* exactly the other nodes in the queue, each once.
C12_ExtractMin ==
    [][pc' = "q_extracted" =>
          /\ root' \in InQueue(heap)
          /\ heap'.size = heap.size - 1
          /\ InQueue(heap') = InQueue(heap) \ {root'}
          /\ Cardinality(InQueue(heap')) = heap'.size
          /\ \A p \in InQueue(heap') :
                Deref(nodes, root').freq <= Deref(nodes, p).freq]_vars

\* extractMin has returned a node after an insert, leaving two nodes, one
\* of them heavier than the node returned.
C12_Witness ==
    /\ pc = "q_extracted"
    /\ heap.size >= 2
    /\ nodeIndex > MaxQueue
    /\ \E p \in InQueue(heap) : Deref(nodes, p).freq > Deref(nodes, root).freq

\* ---- C13
\* C13: extractMin on a queue of size 0 is an error that returns no node
\* and leaves the size at 0: the size never wraps to 2^32 - 1.
C13_EmptyQueueError ==
    /\ heap.size # UINT_WRAP
    /\ underflow => (heap.size = 0 /\ root = NULL /\ pc = "error")

\* ---- C14
\* The heap invariant of the variant v over the queue h.
HeapOrdered(v, N, h) ==
    \A i \in 1..(h.size - 1) : ~HeapLess(v, N, At(h, i), At(h, CDiv(i - 1, 2)))

\* C14: buildMinHeap on an array of n >= 1 nodes leaves the same nodes in
\* the array, no child smaller than its parent in the variant's comparison
\* order, and has sifted down from position (n - 2) / 2 (C division) to
\* position 0, one position after the other.
C14_BuildMinHeap ==
    [][(pc' = "q_built" /\ heap.size >= 1) =>
          /\ heap'.size = heap.size
          /\ InQueue(heap') = InQueue(heap)
          /\ Cardinality(InQueue(heap')) = heap'.size
          /\ HeapOrdered(variant, nodes, heap')
          /\ sifted'[1] = CDiv(heap.size - 2, 2)
          /\ sifted'[Len(sifted')] = 0
          /\ \A k \in 1..(Len(sifted') - 1) : sifted'[k + 1] = sifted'[k] - 1]_vars

\* buildMinHeap has run on three nodes and has moved the first of them.
C14_Witness ==
    /\ pc = "q_built"
    /\ heap.size = MaxQueue
    /\ nodeIndex = MaxQueue
    /\ At(heap, 0) # 0
    /\ Len(sifted) >= 1

\* ---- C15
\* C15: for every input and every chunk size >= 1, dividing the input
\* length or not and larger than it or not, calculateFrequencyInChunks
\* leaves the table calculateFrequency leaves for the same input.
C15_ChunkedSameTable ==
    pc = "c_done" => freq = calculateFrequency(data, ZeroFreq, size)

\* An input has been counted in chunks whose size does not divide its
\* length, with a symbol that occurs in two different chunks.
C15_Witness ==
    /\ pc = "c_done"
    /\ chunkSize >= 2
    /\ size > chunkSize
    /\ size % chunkSize # 0
    /\ \E i \in 1..chunkSize : \E j \in (chunkSize + 1)..size :
          data[i] = data[j] /\ freq[data[i]] >= 2

\* ---- C16
\* The sum of the first k entries of a sequence of numbers.
RECURSIVE SumTo(_, _)
SumTo(q, k) == IF k = 0 THEN 0 ELSE q[k] + SumTo(q, k - 1)

\* How often the byte b occurs in the input.
Occurrences(b) == Cardinality({i \in 1..size : data[i] = b})

\* C16: in the variants without sentinel, the table handed to
\* buildHuffmanTree holds exactly the distinct symbols of the input, each
\* once, each with its number of occurrences, so the frequencies sum to the
\* input length.
C16_TableIsHistogram ==
    (variant \in {"huffman", "vlad"}
       /\ pc \in {"heap", "merge", "extract", "compress", "convert", "done"}) =>
        /\ TableSyms = {data[i] : i \in 1..size}
        /\ Cardinality(TableSyms) = uniqueSize
        /\ \A k \in 1..uniqueSize :
              /\ uniqueFreq[k] = Occurrences(uniqueData[k])
              /\ uniqueFreq[k] >= 1
        /\ SumTo(uniqueFreq, uniqueSize) = size

\* ---- C17
\* C17: in huffman_t2_clock.c the table handed to buildHuffmanTree holds
\* the sentinel EOF_CHAR, once and with frequency 1, for every input, and
\* after code extraction the sentinel's code is not empty.
C17_SentinelCoded ==
    (variant = "t2clock"
       /\ pc \in {"heap", "merge", "extract", "compress", "eof", "convert",
                  "done"}) =>
        /\ Cardinality({k \in 1..uniqueSize : uniqueData[k] = EOF_CHAR}) = 1
        /\ \A k \in 1..uniqueSize :
              uniqueData[k] = EOF_CHAR => uniqueFreq[k] = 1
        /\ AfterExtract => codes[EOF_CHAR] # <<>>

\* ---- C18
\* The internal nodes of the arena.
InternalNodes == {p \in 0..(nodeIndex - 1) : ~isLeaf(nodes, p)}

\* The input is one symbol repeated and the table holds that symbol alone.
OneSymbol ==
    /\ size >= 1
    /\ \A i \in 1..size : data[i] = data[1]
    /\ uniqueData = <<data[1]>>

TableFreq(c) == uniqueFreq[CHOOSE k \in 1..uniqueSize : uniqueData[k] = c]

\* C19: in huffman.c, for an input with at least two distinct symbols, a
\* symbol of strictly greater frequency has no longer code than a symbol
\* of smaller frequency; and for main's input "abracadabra" the five
\* symbols all have a code, the code of 'a' is no longer than those of 'c'
\* and 'd', and the bit string printed has
\* 5 len(a) + 2 len(b) + 2 len(r) + len(c) + len(d) characters.
C19_FrequentIsShorter ==
    /\ (variant = "huffman" /\ AfterExtract /\ uniqueSize >= 2) =>
          \A c \in TableSyms : \A d \in TableSyms :
              TableFreq(c) > TableFreq(d) => Len(codes[c]) <= Len(codes[d])
    /\ (variant = "huffman" /\ pc = "done" /\ data = Abracadabra) =>
          /\ \A c \in {97, 98, 114, 99, 100} : codes[c] # <<>>
          /\ Len(codes[97]) <= Len(codes[99])
          /\ Len(codes[97]) <= Len(codes[100])
          /\ Len(compressed) = 5 * Len(codes[97]) + 2 * Len(codes[98])
                                 + 2 * Len(codes[114]) + Len(codes[99])
                                 + Len(codes[100])

\* ---- C20
\* C20: for the 8000 symbols main of huffman_vlad.c hands to HuffmanCodes
\* the table holds 'a' .. 'r' with frequency 308 and 's' .. 'z' with 307,
\* every one of the 26 symbols gets a code of 4 or 5 characters, and at
\* least one code has 4.
C20_NearBalanced ==
    (variant = "vlad" /\ size = SIZE /\ AfterExtract) =>
        /\ uniqueData = [k \in 1..26 |-> 96 + k]
        /\ uniqueFreq = [k \in 1..26 |-> IF k <= 18 THEN 308 ELSE 307]
        /\ \A c \in Letters : Len(codes[c]) \in {4, 5}
        /\ \E c \in Letters : Len(codes[c]) = 4

\* main of huffman_vlad.c has run to the end on its 8000 symbols.
C20_Witness ==
    /\ variant = "vlad"
    /\ size = SIZE
    /\ pc = "done"
    /\ Len(recorded) = 26
    /\ Len(output) > 0

\* ---- C21
\* C21: newNode never hands out an arena slot with index >= MAX_CHAR: every
\* node allocated lies at an index below MAX_CHAR (an allocation beyond the
\* arena would have to end the call instead).
C21_ArenaBounded == nodeIndex <= MAX_CHAR(variant)

\* ---- C22
\* C22: in every iteration of the merge loop the new internal node has the
\* first node extracted as its left child and the second as its right child,
\* left.weight <= right.weight, weight left.weight + right.weight, and it is
\* the node inserted back into the queue, which loses the two extracted.
C22_MergeNode ==
    [][(pc = "merge" /\ pc' = "merge" /\ Len(nodes') = Len(nodes) + 1) =>
          LET e1 == extractMin(variant, nodes, heap)
              e2 == extractMin(variant, nodes, e1.heap)
              top == Deref(nodes', nodeIndex)
          IN /\ top.left = e1.node
             /\ top.right = e2.node
             /\ e1.node # e2.node
             /\ Deref(nodes, top.left).freq <= Deref(nodes, top.right).freq
             /\ top.freq = Deref(nodes, top.left).freq
                             + Deref(nodes, top.right).freq
             /\ SubSeq(nodes', 1, nodeIndex) = nodes
             /\ heap'.size = heap.size - 1
             /\ InQueue(heap') =
                  (InQueue(heap) \ {top.left, top.right}) \cup {nodeIndex}]_vars

\* A merge has joined two nodes of different weights, and another two of
\* the same weight.
C22_Witness ==
    /\ pc = "merge"
    /\ \E p \in InternalNodes :
          Deref(nodes, Deref(nodes, p).left).freq
             < Deref(nodes, Deref(nodes, p).right).freq
    /\ \E p \in InternalNodes :
          Deref(nodes, Deref(nodes, p).left).freq
             = Deref(nodes, Deref(nodes, p).right).freq

\* ---- C23
\* C23: for a table of n >= 1 symbols buildHuffmanTree ends after exactly
\* n - 1 merge iterations: the queue holds n nodes less one per iteration
\* done, never more than n, exactly 1 when the loop exits, and the call
\* allocates exactly 2n - 1 nodes (n leaves and n - 1 internal nodes).
C23_MergeCount ==
    (variant \in {"huffman", "vlad"} /\ call = 1 /\ uniqueSize >= 1) =>
        /\ pc = "merge" =>
              /\ heap.size \in 1..uniqueSize
              /\ Cardinality(InternalNodes) = uniqueSize - heap.size
              /\ nodeIndex = uniqueSize + Cardinality(InternalNodes)
              /\ ~loopContinues(variant, heap) => heap.size = 1
        /\ pc \in {"extract", "compress"} =>
              /\ heap.size = 0
              /\ Cardinality(InternalNodes) = uniqueSize - 1
              /\ nodeIndex = 2 * uniqueSize - 1

\* buildHuffmanTree has returned for a table of three or more symbols.
C23_Witness ==
    /\ variant \in {"huffman", "vlad"}
    /\ pc = "extract"
    /\ uniqueSize >= 3
    /\ nodeIndex = 2 * uniqueSize - 1

\* ---- C24
\* The number of paths from the node p down to the node t.
RECURSIVE PathCount(_, _, _)
PathCount(N, p, t) ==
    IF p = NULL THEN 0
    ELSE (IF p = t THEN 1 ELSE 0)
           + PathCount(N, Deref(N, p).left, t)
           + PathCount(N, Deref(N, p).right, t)

\* C24: the tree buildHuffmanTree returns is a single rooted full binary
\* tree: every node allocated in the call is reached from the root by
\* exactly one path, children were allocated before their parent (no
\* cycle), every internal node has two children and their weights' sum as
\* weight, the leaves are the table's symbols with their frequencies, one
\* leaf per symbol, and the root weighs the sum of all frequencies.
C24_FullBinaryTree ==
    (pc \in {"extract", "compress"} /\ call = 1) =>
        /\ root \in 0..(nodeIndex - 1)
        /\ \A p \in 0..(nodeIndex - 1) :
              \/ isLeaf(nodes, p)
              \/ /\ Deref(nodes, p).left \in 0..(p - 1)
                 /\ Deref(nodes, p).right \in 0..(p - 1)
                 /\ Deref(nodes, p).freq =
                       Deref(nodes, Deref(nodes, p).left).freq
                         + Deref(nodes, Deref(nodes, p).right).freq
        /\ \A t \in 0..(nodeIndex - 1) : PathCount(nodes, root, t) = 1
        /\ {p \in 0..(nodeIndex - 1) : isLeaf(nodes, p)} = 0..(uniqueSize - 1)
        /\ \A k \in 1..uniqueSize :
              /\ Deref(nodes, k - 1).data = uniqueData[k]
              /\ Deref(nodes, k - 1).freq = uniqueFreq[k]
        /\ Deref(nodes, root).freq = SumTo(uniqueFreq, uniqueSize)

\* buildHuffmanTree has returned a tree of four or more leaves in huffman.c.
C24_Witness ==
    /\ variant = "huffman"
    /\ pc = "extract"
    /\ uniqueSize >= 4
    /\ Cardinality(InternalNodes) = uniqueSize - 1
    /\ root = nodeIndex - 1

\* ---- C25
\* C25: in huffman.c, whenever buildHuffmanTree calls extractMin, the node
\* returned is least in the order (weight, symbol value): no node left in
\* the queue has the same weight and a smaller symbol ('$' for an internal
\* node), nor a smaller weight.
C25_TieBreakOrder ==
    (variant = "huffman" /\ pc = "merge" /\ heap.size >= 1) =>
        LET e == extractMin(variant, nodes, heap)
        IN \A q \in InQueue(e.heap) : ~HeapLessTie(nodes, q, e.node)

\* ---- C26
\* The symbols whose row an extraction wrote.
WrittenSyms(N, r) == {Deref(N, r.rec[k]).data : k \in 1..Len(r.rec)}

\* C26: on the tree the builder returned, the recursive extractor and the
\* explicit-stack extractor, both started on a zeroed table (and zeroed
\* visited[]), write rows for the same symbols and the same code for each.
C26_ExtractorsAgree ==
    (pc = "compress" /\ call = 1) =>
        LET viaStack == stackExtract(nodes, root, {}, zeroedCodes(codes))
            viaCalls == recursiveExtract(nodes, root, zeroedCodes(codes))
        IN /\ WrittenSyms(nodes, viaStack) = WrittenSyms(nodes, viaCalls)
           /\ viaStack.codes = viaCalls.codes

\* ---- C27
\* C27: every call of HuffmanCodes starts allocating at arena index 0: when
\* buildHuffmanTree has returned, in any call, the call's 2n - 1 nodes are
\* nodes[0 .. 2n-2], the root being the last of them.
C27_ArenaResetPerCall ==
    (pc = "extract" /\ uniqueSize >= 1) =>
        /\ nodeIndex = 2 * uniqueSize - 1
        /\ root = 2 * uniqueSize - 2

\* ---- C28
\* C28: after code extraction every index at which the extractor wrote its
\* stack[], arr[] and visited[] buffers (its path buffer in the recursive
\* variant) is below MAX_TREE_HT, and every code with its terminating NUL
\* fits a row of MAX_TREE_HT characters.
C28_BuffersSuffice ==
    pc = "compress" =>
        /\ stackHigh < MAX_TREE_HT(variant)
        /\ \A i \in visited : i < MAX_TREE_HT(variant)
        /\ \A c \in DOMAIN codes : Len(codes[c]) + 1 <= MAX_TREE_HT(variant)

\* The explicit-stack extractor has run on the deep table, whose tree is a
\* chain: the stack has held one node per symbol.
C28_Witness ==
    /\ variant \in {"huffman", "t2clock"}
    /\ pc = "compress"
    /\ uniqueSize = Len(FibTable.freq)
    /\ stackHigh = uniqueSize - 1
    /\ \E c \in DOMAIN codes : Len(codes[c]) = uniqueSize - 1

\* ---- C29
\* C29: once counting has run, every index (int)data[i] it used on freq[]
\* (the same index packing uses on codes[][]) lies in 0 .. MAX_CHAR - 1,
\* whatever byte values 0 .. 255 the input holds.
C29_IndexInRange ==
    pc # "count" =>
        \A i \in 1..size : CharVal(data[i]) \in 0..(MAX_CHAR(variant) - 1)

\* ---- C30
\* C30: in huffman_t2_clock.c, for an input of at most SIZE symbols, once
\* compressInput has run, the code characters of the input and of the
\* sentinel number fewer than the MAX_TREE_HT * MAX_CHAR characters of
\* compressed[], their padded copy with its NUL fits padded_data[] and the
\* bytes made of them fit the MAX_TREE_HT * MAX_CHAR / 8 bytes of output[].
C30_BuffersHoldInput ==
    (variant = "t2clock" /\ size <= SIZE /\ InTable
       /\ pc \in {"eof", "convert", "done", "crashed", "undefined"}) =>
        LET written == Len(concatCodes(codes, data, 0, size))
                          + Len(codes[EOF_CHAR])
        IN /\ written < compressedCapacity(variant)
           /\ paddedLength(written) + 1 <= compressedCapacity(variant)
           /\ CDiv(paddedLength(written), 8)
                 <= CDiv(compressedCapacity(variant), 8)

=============================================================================
